---- MODULE Spec2Model ----
(***************************************************************************)
(* Model of src/gold_future_strategy.py: the London opening-range breakout *)
(* backtest of GoldFutureStrategy.                                         *)
(*                                                                         *)
(* Time is a grid of integer slots in UTC; a calendar date is DayLen       *)
(* consecutive slots.  Prices and the reward multiple are small integers.  *)
(* A bar is a record [t, High, Low, Close] (Open and Volume are never read *)
(* by the strategy).  An Optional value is None (the empty tuple) or       *)
(* Some(v) (the one-element tuple).                                        *)
(***************************************************************************)
EXTENDS Integers, Sequences, FiniteSets

VARIABLES
    feed,               \* the series the market data provider holds for the range
    risk_reward_ratio,  \* self.risk_reward_ratio
    trades,             \* self.trades, the ledger
    console,            \* the POSITION block printed for each recorded breakout
    pc,                 \* "idle": outside run_strategy; "loop": inside its for loop
    data,               \* run_strategy's local: the fetched series
    dates,              \* run_strategy's local: the distinct calendar dates
    di,                 \* index in dates of the next date of the for loop
    runs,               \* number of run_strategy calls started so far
    fetches,            \* number of those calls in which get_data returned a series
    prevLedger          \* self.trades as it was when the previous call returned

vars == <<feed, risk_reward_ratio, trades, console, pc, data, dates, di,
          runs, fetches, prevLedger>>

----------------------------------------------------------------------------
(* Bounds of the model *)
MaxBars == 3        \* longest series the provider returns
MaxPrice == 2       \* prices range over 0..MaxPrice
NumDays == 2        \* calendar dates covered by the requested range
MaxReward == 1      \* reward multiples range over 0..MaxReward
MaxRuns == 2        \* run_strategy calls made on the one instance

(* The time grid: scaled program constants *)
DayLen == 3         \* slots of one calendar date (data.index.date)
OpenSlot == 0       \* slot of time(8, 0) London within its date
WindowLen == 2      \* slots of timedelta(minutes=15)

None == <<>>
Some(v) == <<v>>

Times == 0..(NumDays * DayLen - 1)
Prices == 0..MaxPrice
RewardMultiples == 0..MaxReward

\* High/Low/Close of a well-formed OHLC bar: Low <= Close <= High
Shapes == {s \in [High : Prices, Low : Prices, Close : Prices] :
              s.Low <= s.Close /\ s.Close <= s.High}

Bar(t, s) == [t |-> t, High |-> s.High, Low |-> s.Low, Close |-> s.Close]

SetMin(S) == CHOOSE x \in S : \A y \in S : x <= y
SetMax(S) == CHOOSE x \in S : \A y \in S : x >= y

\* the provider's series: bars in strictly increasing timestamp order
RECURSIVE MkSeries(_, _)
MkSeries(ts, ohlc) ==
    IF ts = {} THEN <<>>
    ELSE LET t == SetMin(ts)
         IN  <<Bar(t, ohlc[t])>> \o MkSeries(ts \ {t}, ohlc)

date_of(t) == t \div DayLen

----------------------------------------------------------------------------
(* get_data without the test of data.empty *)
get_data_NoEmptyTest(raises) ==
    IF raises THEN None
    ELSE Some(feed)

(* get_data; raises: ticker.history raises on this call *)
get_data(raises) ==
    IF raises THEN None
    ELSE IF feed = <<>> THEN None
    ELSE Some(feed)

(* the distinct dates listed latest first *)
RECURSIVE unique_dates_Reversed(_, _, _)
unique_dates_Reversed(d, k, acc) ==
    IF k > Len(d) THEN acc
    ELSE LET dt == date_of(d[k].t)
         IN  IF \E j \in 1..Len(acc) : acc[j] = dt
             THEN unique_dates_Reversed(d, k + 1, acc)
             ELSE unique_dates_Reversed(d, k + 1, <<dt>> \o acc)

(* pd.to_datetime(data.index.date).unique(): first-appearance order *)
RECURSIVE unique_dates(_, _, _)
unique_dates(d, k, acc) ==
    IF k > Len(d) THEN acc
    ELSE LET dt == date_of(d[k].t)
         IN  IF \E j \in 1..Len(acc) : acc[j] = dt
             THEN unique_dates(d, k + 1, acc)
             ELSE unique_dates(d, k + 1, Append(acc, dt))

(* identify_london_session_start *)
identify_london_session_start(date) == date * DayLen + OpenSlot

(* calculate_london_rectangle with the window end included: data.index <= london_end *)
calculate_london_rectangle_InclusiveEnd(d, date) ==
    LET london_start == identify_london_session_start(date)
        london_end == london_start + WindowLen
        InWindow(b) == b.t >= london_start /\ b.t <= london_end
        london_data == SelectSeq(d, InWindow)
    IN  IF london_data = <<>> THEN None
        ELSE Some([high |-> SetMax({london_data[k].High : k \in 1..Len(london_data)}),
                   low |-> SetMin({london_data[k].Low : k \in 1..Len(london_data)}),
                   london_data |-> london_data])

(* calculate_london_rectangle: None, or Some([high, low, london_data]) *)
calculate_london_rectangle(d, date) ==
    LET london_start == identify_london_session_start(date)
        london_end == london_start + WindowLen
        InWindow(b) == b.t >= london_start /\ b.t < london_end
        london_data == SelectSeq(d, InWindow)
    IN  IF london_data = <<>> THEN None
        ELSE Some([high |-> SetMax({london_data[k].High : k \in 1..Len(london_data)}),
                   low |-> SetMin({london_data[k].Low : k \in 1..Len(london_data)}),
                   london_data |-> london_data])

(* the row test of check_breakout with inclusive comparisons *)
breakout_direction_Inclusive(row, high_level, low_level) ==
    IF row.Close >= high_level THEN "long"
    ELSE IF row.Close <= low_level THEN "short"
    ELSE "none"

(* check_breakout, the test made on one row: "long", "short" or "none" *)
breakout_direction(row, high_level, low_level) ==
    IF row.Close > high_level THEN "long"
    ELSE IF row.Close < low_level THEN "short"
    ELSE "none"

(* the scan of check_breakout giving up after the first row (return None inside the loop) *)
scan_breakout_FirstRowOnly(rows, k, high_level, low_level) ==
    IF k > Len(rows) THEN None
    ELSE LET dir == breakout_direction(rows[k], high_level, low_level)
         IN  IF dir = "none" THEN None
             ELSE Some([time |-> rows[k].t,
                        direction |-> dir,
                        entry_price |-> rows[k].Close,
                        breakout_candle_high |-> rows[k].High,
                        breakout_candle_low |-> rows[k].Low])

(* the scan of check_breakout keeping the last qualifying row instead of the first *)
scan_breakout_Last(rows, k, high_level, low_level) ==
    LET hits == {j \in k..Len(rows) :
                    breakout_direction(rows[j], high_level, low_level) # "none"}
    IN  IF hits = {} THEN None
        ELSE LET j == SetMax(hits)
             IN  Some([time |-> rows[j].t,
                       direction |-> breakout_direction(rows[j], high_level, low_level),
                       entry_price |-> rows[j].Close,
                       breakout_candle_high |-> rows[j].High,
                       breakout_candle_low |-> rows[j].Low])

RECURSIVE scan_breakout(_, _, _, _)
scan_breakout(rows, k, high_level, low_level) ==
    IF k > Len(rows) THEN None
    ELSE LET dir == breakout_direction(rows[k], high_level, low_level)
         IN  IF dir = "none" THEN scan_breakout(rows, k + 1, high_level, low_level)
             ELSE Some([time |-> rows[k].t,
                        direction |-> dir,
                        entry_price |-> rows[k].Close,
                        breakout_candle_high |-> rows[k].High,
                        breakout_candle_low |-> rows[k].Low])

(* check_breakout: None, or Some(breakout) *)
check_breakout(d, high_level, low_level, start_time) ==
    LET After(b) == b.t > start_time
        post_rectangle_data == SelectSeq(d, After)
    IN  IF post_rectangle_data = <<>> THEN None
        ELSE scan_breakout(post_rectangle_data, 1, high_level, low_level)

(* calculate_stop_loss_take_profit with the stops of the two directions swapped *)
calculate_stop_loss_take_profit_SwappedStops(breakout_info, R) ==
    LET entry_price == breakout_info.entry_price
    IN  IF breakout_info.direction = "long"
        THEN LET stop_loss == breakout_info.breakout_candle_high
                 risk == entry_price - stop_loss
             IN  [stop_loss |-> stop_loss, take_profit |-> entry_price + (risk * R)]
        ELSE LET stop_loss == breakout_info.breakout_candle_low
                 risk == stop_loss - entry_price
             IN  [stop_loss |-> stop_loss, take_profit |-> entry_price - (risk * R)]

(* calculate_stop_loss_take_profit with the short branch copied from the long one *)
calculate_stop_loss_take_profit_LongRisk(breakout_info, R) ==
    LET entry_price == breakout_info.entry_price
    IN  IF breakout_info.direction = "long"
        THEN LET stop_loss == breakout_info.breakout_candle_low
                 risk == entry_price - stop_loss
             IN  [stop_loss |-> stop_loss, take_profit |-> entry_price + (risk * R)]
        ELSE LET stop_loss == breakout_info.breakout_candle_high
                 risk == entry_price - stop_loss
             IN  [stop_loss |-> stop_loss, take_profit |-> entry_price - (risk * R)]

(* calculate_stop_loss_take_profit *)
calculate_stop_loss_take_profit(breakout_info, R) ==
    LET entry_price == breakout_info.entry_price
    IN  IF breakout_info.direction = "long"
        THEN LET stop_loss == breakout_info.breakout_candle_low
                 risk == entry_price - stop_loss
             IN  [stop_loss |-> stop_loss, take_profit |-> entry_price + (risk * R)]
        ELSE LET stop_loss == breakout_info.breakout_candle_high
                 risk == stop_loss - entry_price
             IN  [stop_loss |-> stop_loss, take_profit |-> entry_price - (risk * R)]

(* the row test of simulate_trade_outcome with the take-profit tested first *)
row_outcome_TargetFirst(row, direction, stop_loss, take_profit) ==
    IF direction = "long"
    THEN IF row.High >= take_profit THEN "win"
         ELSE IF row.Low <= stop_loss THEN "loss"
         ELSE "none"
    ELSE IF row.Low <= take_profit THEN "win"
         ELSE IF row.High >= stop_loss THEN "loss"
         ELSE "none"

(* simulate_trade_outcome, the test made on one row: "loss", "win" or "none" *)
row_outcome(row, direction, stop_loss, take_profit) ==
    IF direction = "long"
    THEN IF row.Low <= stop_loss THEN "loss"
         ELSE IF row.High >= take_profit THEN "win"
         ELSE "none"
    ELSE IF row.High >= stop_loss THEN "loss"
         ELSE IF row.Low <= take_profit THEN "win"
         ELSE "none"

RECURSIVE scan_outcome(_, _, _, _, _)
scan_outcome(rows, k, direction, stop_loss, take_profit) ==
    IF k > Len(rows)
    THEN [exit_time |-> None, exit_price |-> None, status |-> "open"]
    ELSE LET o == row_outcome(rows[k], direction, stop_loss, take_profit)
         IN  IF o = "loss"
             THEN [exit_time |-> Some(rows[k].t), exit_price |-> Some(stop_loss),
                   status |-> "loss"]
             ELSE IF o = "win"
             THEN [exit_time |-> Some(rows[k].t), exit_price |-> Some(take_profit),
                   status |-> "win"]
             ELSE scan_outcome(rows, k + 1, direction, stop_loss, take_profit)

(* simulate_trade_outcome scanning from the breakout row itself: data.index >= start_time *)
simulate_trade_outcome_FromEntry(d, trade_info, stop_loss, take_profit) ==
    LET After(b) == b.t >= trade_info.time
        future_data == SelectSeq(d, After)
    IN  IF future_data = <<>>
        THEN [exit_time |-> None, exit_price |-> None, status |-> "None"]
        ELSE scan_outcome(future_data, 1, trade_info.direction, stop_loss, take_profit)

(* simulate_trade_outcome; the status None of line 130 is the string "None" *)
simulate_trade_outcome(d, trade_info, stop_loss, take_profit) ==
    LET After(b) == b.t > trade_info.time
        future_data == SelectSeq(d, After)
    IN  IF future_data = <<>>
        THEN [exit_time |-> None, exit_price |-> None, status |-> "None"]
        ELSE scan_outcome(future_data, 1, trade_info.direction, stop_loss, take_profit)

(* the realized profit and loss computed as for a long position whatever the direction *)
realized_pnl_LongOnly(status, direction, entry_price, stop_loss, take_profit) ==
    IF status = "win" THEN Some(take_profit - entry_price)
    ELSE IF status = "loss" THEN Some(stop_loss - entry_price)
    ELSE None

(* run_strategy, lines 202-207: the realized profit and loss *)
realized_pnl(status, direction, entry_price, stop_loss, take_profit) ==
    IF status = "win"
    THEN Some(IF direction = "long" THEN take_profit - entry_price
              ELSE entry_price - take_profit)
    ELSE IF status = "loss"
    THEN Some(IF direction = "long" THEN stop_loss - entry_price
              ELSE entry_price - stop_loss)
    ELSE None

(* run_strategy, lines 186-191: the printed risk and reward *)
printed_risk_reward(breakout, stop_loss, take_profit) ==
    IF breakout.direction = "long"
    THEN [risk |-> breakout.entry_price - stop_loss,
          reward |-> take_profit - breakout.entry_price]
    ELSE [risk |-> stop_loss - breakout.entry_price,
          reward |-> breakout.entry_price - take_profit]

(* self.trades = [trade] in place of self.trades.append(trade) *)
ledger_append_Replace(ledger, trade) == <<trade>>

(* run_strategy, line 221: self.trades.append(trade) *)
ledger_append(ledger, trade) == Append(ledger, trade)

----------------------------------------------------------------------------
(* GoldFutureStrategy.__init__, and the provider's series for the range *)
Init ==
    /\ risk_reward_ratio \in RewardMultiples
    /\ trades = <<>>
    /\ console = <<>>
    /\ \E ts \in {S \in SUBSET Times : Cardinality(S) <= MaxBars} :
         \E ohlc \in [ts -> Shapes] :
            feed = MkSeries(ts, ohlc)
    /\ pc = "idle"
    /\ data = <<>>
    /\ dates = <<>>
    /\ di = 1
    /\ runs = 0
    /\ fetches = 0
    /\ prevLedger = <<>>

(* run_strategy, lines 152-156: get_data returns None and the call returns *)
RunNoData ==
    /\ pc = "idle"
    /\ runs < MaxRuns
    /\ \E raises \in BOOLEAN : get_data(raises) = None
    /\ runs' = runs + 1
    /\ prevLedger' = trades
    /\ UNCHANGED <<feed, risk_reward_ratio, trades, console, pc, data, dates, di,
                   fetches>>

(* run_strategy, lines 152-163: the series is fetched and the dates are listed *)
StartRun ==
    /\ pc = "idle"
    /\ runs < MaxRuns
    /\ \E raises \in BOOLEAN :
          /\ get_data(raises) # None
          /\ data' = get_data(raises)[1]
          /\ dates' = unique_dates(get_data(raises)[1], 1, <<>>)
    /\ di' = 1
    /\ pc' = "loop"
    /\ runs' = runs + 1
    /\ fetches' = fetches + 1
    /\ prevLedger' = trades
    /\ UNCHANGED <<feed, risk_reward_ratio, trades, console>>

(* leaving the body of the for loop: next date, or return from run_strategy *)
NextDate ==
    /\ di' = di + 1
    /\ pc' = IF di + 1 > Len(dates) THEN "idle" ELSE "loop"
    /\ UNCHANGED <<feed, risk_reward_ratio, data, dates, runs, fetches, prevLedger>>

(* run_strategy, lines 165-169: the date has no bar in its session window *)
SkipNoRange ==
    /\ pc = "loop"
    /\ di <= Len(dates)
    /\ calculate_london_rectangle(data, dates[di]) = None
    /\ UNCHANGED <<trades, console>>
    /\ NextDate

(* run_strategy, lines 165-180, 231-232: no breakout after the rectangle *)
SkipNoBreakout ==
    /\ pc = "loop"
    /\ di <= Len(dates)
    /\ calculate_london_rectangle(data, dates[di]) # None
    /\ LET rect == calculate_london_rectangle(data, dates[di])[1]
           rectangle_end == rect.london_data[Len(rect.london_data)].t
       IN  check_breakout(data, rect.high, rect.low, rectangle_end) = None
    /\ UNCHANGED <<trades, console>>
    /\ NextDate

(* run_strategy, lines 165-230: a breakout is found and its Trade is appended *)
RecordTrade ==
    /\ pc = "loop"
    /\ di <= Len(dates)
    /\ calculate_london_rectangle(data, dates[di]) # None
    /\ LET rect == calculate_london_rectangle(data, dates[di])[1]
           rectangle_end == rect.london_data[Len(rect.london_data)].t
           found == check_breakout(data, rect.high, rect.low, rectangle_end)
       IN  /\ found # None
           /\ LET breakout == found[1]
                  bracket == calculate_stop_loss_take_profit(breakout, risk_reward_ratio)
                  stop_loss == bracket.stop_loss
                  take_profit == bracket.take_profit
                  rr == printed_risk_reward(breakout, stop_loss, take_profit)
                  outcome == simulate_trade_outcome(data, breakout, stop_loss, take_profit)
                  pnl == realized_pnl(outcome.status, breakout.direction,
                                      breakout.entry_price, stop_loss, take_profit)
                  trade == [entry_time |-> breakout.time,
                            entry_price |-> breakout.entry_price,
                            direction |-> breakout.direction,
                            stop_loss |-> stop_loss,
                            take_profit |-> take_profit,
                            exit_time |-> outcome.exit_time,
                            exit_price |-> outcome.exit_price,
                            pnl |-> pnl,
                            status |-> outcome.status]
              IN  /\ trades' = ledger_append(trades, trade)
                  /\ console' = Append(console,
                                       [date |-> dates[di],
                                        high |-> rect.high,
                                        low |-> rect.low,
                                        rectangle_end |-> rectangle_end,
                                        ratio |-> risk_reward_ratio,
                                        risk |-> rr.risk,
                                        reward |-> rr.reward])
    /\ NextDate

Next ==
    \/ RunNoData
    \/ StartRun
    \/ SkipNoRange
    \/ SkipNoBreakout
    \/ RecordTrade

Spec == Init /\ [][Next]_vars

TypeOK ==
    /\ pc \in {"idle", "loop"}
    /\ runs \in 0..MaxRuns
    /\ fetches \in 0..runs
    /\ Len(trades) = Len(console)
    /\ \A i \in 1..Len(trades) : trades[i].status \in {"open", "win", "loss", "None"}
----------------------------------------------------------------------------
(* Vocabulary of the properties *)
Ledger == 1..Len(trades)
Rows == 1..Len(data)
Abs(x) == IF x < 0 THEN -x ELSE x

TouchesStop(b, tr) ==
    IF tr.direction = "long" THEN b.Low <= tr.stop_loss ELSE b.High >= tr.stop_loss
TouchesTarget(b, tr) ==
    IF tr.direction = "long" THEN b.High >= tr.take_profit ELSE b.Low <= tr.take_profit
Touches(b, tr) == TouchesStop(b, tr) \/ TouchesTarget(b, tr)

\* row k is the first row strictly after the entry of tr that touches a level
FirstTouch(k, tr) ==
    /\ data[k].t > tr.entry_time
    /\ Touches(data[k], tr)
    /\ \A j \in Rows : (data[j].t > tr.entry_time /\ data[j].t < data[k].t)
                          => ~Touches(data[j], tr)

\* no row strictly after the entry of tr touches a level
NeverTouched(tr) == \A k \in Rows : data[k].t > tr.entry_time => ~Touches(data[k], tr)

----------------------------------------------------------------------------
\* C1: after run_strategy every Trade of the ledger has a status among
\* 'open', 'win', 'loss', and its status is 'open' exactly when exit_time and
\* exit_price are both unset.
C1_StatusDomain ==
    pc = "idle" =>
        \A i \in Ledger :
            /\ trades[i].status \in {"open", "win", "loss"}
            /\ (trades[i].status = "open"
                  <=> (trades[i].exit_time = None /\ trades[i].exit_price = None))

\* C2: when the first row after the breakout that touches a level touches both
\* the stop-loss and the take-profit, the Trade is a 'loss' exited on that row
\* at the stop-loss.
C2_StopLossPriority ==
    \A i \in Ledger : \A k \in Rows :
        (/\ FirstTouch(k, trades[i])
         /\ TouchesStop(data[k], trades[i])
         /\ TouchesTarget(data[k], trades[i]))
        => /\ trades[i].status = "loss"
           /\ trades[i].exit_price = Some(trades[i].stop_loss)
           /\ trades[i].exit_time = Some(data[k].t)

C2_Witness ==
    \E i \in Ledger : \E k \in Rows :
        /\ FirstTouch(k, trades[i])
        /\ TouchesStop(data[k], trades[i])
        /\ TouchesTarget(data[k], trades[i])
        /\ trades[i].stop_loss # trades[i].take_profit
        /\ trades[i].status = "loss"

\* C3: the entry price of every Trade is strictly above the range high of its
\* date when long and strictly below the range low of its date when short.
C3_StrictBreakout ==
    \A i \in Ledger :
        /\ trades[i].direction \in {"long", "short"}
        /\ trades[i].direction = "long" => trades[i].entry_price > console[i].high
        /\ trades[i].direction = "short" => trades[i].entry_price < console[i].low

\* a row closing exactly on a range level was passed over before the breakout
C3_Witness ==
    \E i \in Ledger : \E k \in Rows :
        /\ data[k].t > console[i].rectangle_end
        /\ data[k].t < trades[i].entry_time
        /\ (data[k].Close = console[i].high \/ data[k].Close = console[i].low)

\* C4: after one run_strategy on a fresh instance no two Trades of the ledger
\* have their entry_time on the same calendar date.
C4_OneTradePerDate ==
    (pc = "idle" /\ runs = 1) =>
        \A i, j \in Ledger :
            i # j => date_of(trades[i].entry_time) # date_of(trades[j].entry_time)

\* C5: a Trade whose levels are touched by no row strictly after its breakout
\* row (also when there is no such row) is recorded 'open' with exit_time,
\* exit_price and pnl unset.
C5_UntouchedIsOpen ==
    \A i \in Ledger :
        NeverTouched(trades[i])
        => /\ trades[i].status = "open"
           /\ trades[i].exit_time = None
           /\ trades[i].exit_price = None
           /\ trades[i].pnl = None

\* C6: over bars with Low <= Close <= High the risk of every recorded breakout
\* is strictly positive: entry - stop > 0 when long, stop - entry > 0 when short.
C6_PositiveRisk ==
    \A i \in Ledger :
        IF trades[i].direction = "long"
        THEN trades[i].entry_price - trades[i].stop_loss > 0
        ELSE trades[i].stop_loss - trades[i].entry_price > 0

\* C7: a 'win' has pnl = risk x reward multiple and a 'loss' has pnl = -risk,
\* risk = |entry_price - stop_loss| being the printed risk figure.
C7_PnlIsRiskMultiple ==
    \A i \in Ledger :
        LET risk == Abs(trades[i].entry_price - trades[i].stop_loss)
        IN  /\ trades[i].status \in {"win", "loss"} => console[i].risk = risk
            /\ trades[i].status = "win"
                 => /\ trades[i].pnl = Some(risk * risk_reward_ratio)
                    /\ console[i].reward = risk * risk_reward_ratio
            /\ trades[i].status = "loss" => trades[i].pnl = Some(-risk)

\* a winning short Trade with a non-zero risk and a positive reward multiple
C7_Witness ==
    \E i \in Ledger :
        /\ trades[i].status = "win"
        /\ trades[i].direction = "short"
        /\ risk_reward_ratio > 0
        /\ trades[i].pnl # Some(0)

\* C8: a 'win' or 'loss' has pnl = exit_price - entry_price when long and
\* entry_price - exit_price when short; an 'open' Trade has pnl unset.
C8_PnlFromExit ==
    \A i \in Ledger :
        /\ trades[i].status \in {"win", "loss"}
             => /\ trades[i].exit_price # None
                /\ trades[i].pnl =
                     Some(IF trades[i].direction = "long"
                          THEN trades[i].exit_price[1] - trades[i].entry_price
                          ELSE trades[i].entry_price - trades[i].exit_price[1])
        /\ trades[i].status = "open" => trades[i].pnl = None

\* a losing short Trade exited away from its entry price
C8_Witness ==
    \E i \in Ledger :
        /\ trades[i].status = "loss"
        /\ trades[i].direction = "short"
        /\ trades[i].exit_price # Some(trades[i].entry_price)

\* C9: a second run_strategy over the same series on the same instance leaves
\* the ledger identical to the one the first run produced.
C9_RerunSameLedger ==
    (pc = "idle" /\ fetches >= 2) => trades = prevLedger

\* C10: a non-positive reward multiple is rejected at construction: the per-day
\* processing never runs and no Trade is ever appended with
\* risk_reward_ratio <= 0.
C10_NoRunWithBadRatio ==
    (pc = "loop" \/ trades # <<>>) => risk_reward_ratio > 0
----------------------------------------------------------------------------
(* The session window of a date, read off the series *)
WindowRows(date) ==
    {k \in Rows : /\ data[k].t >= date * DayLen + OpenSlot
                  /\ data[k].t < date * DayLen + OpenSlot + WindowLen}
WindowHigh(date) == SetMax({data[k].High : k \in WindowRows(date)})
WindowLow(date) == SetMin({data[k].Low : k \in WindowRows(date)})
WindowBound(date) == SetMax({data[k].t : k \in WindowRows(date)})
ClosesOutside(k, date) ==
    data[k].Close > WindowHigh(date) \/ data[k].Close < WindowLow(date)
\* the date has a range and some row after its last window row closes outside it
Contributes(date) ==
    /\ WindowRows(date) # {}
    /\ \E k \in Rows : data[k].t > WindowBound(date) /\ ClosesOutside(k, date)

C12_OneTradeOrSkip ==
    [][pc = "loop" =>
          /\ di' = di + 1
          /\ IF Contributes(dates[di])
             THEN Len(trades') = Len(trades) + 1
             ELSE trades' = trades]_vars

\* the first date of the run was skipped and the second one recorded a Trade
C12_Witness ==
    /\ fetches = 1
    /\ pc = "idle"
    /\ Len(dates) = 2
    /\ Len(trades) = 1
    /\ console[1].date = dates[2]
\* C13: a run_strategy call whose get_data finds no series (the provider raises
\* or returns an empty one) returns at once: no date is processed and the
\* ledger is left as it was; an empty series is never taken as fetched.
C13_NoDataNoChange ==
    [][(pc = "idle" /\ runs' = runs + 1 /\ (feed = <<>> \/ fetches' = fetches))
          => /\ pc' = "idle"
             /\ fetches' = fetches
             /\ trades' = trades
             /\ console' = console
             /\ dates' = dates
             /\ di' = di]_vars

\* a call that found no series was made on an instance whose ledger held Trades
C13_Witness ==
    /\ pc = "idle"
    /\ fetches >= 1
    /\ fetches < runs
    /\ trades # <<>>
    /\ trades = prevLedger

\* C14: the breakout of a date is the first row after the last window row that
\* closes outside the range: every row between the two closes inside the range,
\* the row is not a row of the window, and no Trade is recorded exactly when no
\* row after the last window row closes outside the range.
C14_FirstBreakout ==
    [][(pc = "loop" /\ WindowRows(dates[di]) # {})
          => LET d == dates[di]
                 out == {k \in Rows : data[k].t > WindowBound(d) /\ ClosesOutside(k, d)}
             IN  IF out = {}
                 THEN trades' = trades
                 ELSE /\ Len(trades') = Len(trades) + 1
                      /\ LET tr == trades'[Len(trades')]
                         IN  /\ \E k \in out :
                                   /\ tr.entry_time = data[k].t
                                   /\ tr.entry_price = data[k].Close
                                   /\ tr.direction = IF data[k].Close > WindowHigh(d)
                                                     THEN "long" ELSE "short"
                                   /\ k \notin WindowRows(d)
                             /\ \A j \in Rows :
                                   (data[j].t > WindowBound(d) /\ data[j].t < tr.entry_time)
                                   => /\ data[j].Close <= WindowHigh(d)
                                      /\ data[j].Close >= WindowLow(d)]_vars

\* a short breakout found after a row that closed inside the range
C14_Witness ==
    \E i \in Ledger : \E k \in Rows :
        /\ trades[i].direction = "short"
        /\ data[k].t > console[i].rectangle_end
        /\ data[k].t < trades[i].entry_time
        /\ data[k].Close <= console[i].high
        /\ data[k].Close >= console[i].low
C16_BracketFromBreakoutBar ==
    \A i \in Ledger :
        \E k \in Rows :
            /\ data[k].t = trades[i].entry_time
            /\ trades[i].entry_price = data[k].Close
            /\ trades[i].direction = "long"
                 => /\ trades[i].stop_loss = data[k].Low
                    /\ trades[i].take_profit =
                         trades[i].entry_price
                           + (trades[i].entry_price - data[k].Low) * risk_reward_ratio
            /\ trades[i].direction = "short"
                 => /\ trades[i].stop_loss = data[k].High
                    /\ trades[i].take_profit =
                         trades[i].entry_price
                           - (data[k].High - trades[i].entry_price) * risk_reward_ratio

\* a long Trade whose stop is neither range level nor its entry price
C16_Witness ==
    \E i \in Ledger :
        /\ trades[i].direction = "long"
        /\ risk_reward_ratio > 0
        /\ trades[i].stop_loss # console[i].low
        /\ trades[i].stop_loss # console[i].high
        /\ trades[i].stop_loss # trades[i].entry_price
\* C17: for every date of the run calculate_london_rectangle selects exactly the
\* rows with start <= timestamp < start + window length, returns the largest
\* High and the smallest Low of those rows (so high >= low), and returns no
\* range when no row matches; the printed range of a Trade is that range.
C17_RectangleOfWindow ==
    /\ \A n \in 1..Len(dates) :
          LET d == dates[n]
              W == WindowRows(d)
              r == calculate_london_rectangle(data, d)
          IN  IF W = {} THEN r = None
              ELSE /\ r # None
                   /\ Len(r[1].london_data) = Cardinality(W)
                   /\ {r[1].london_data[m] : m \in 1..Len(r[1].london_data)}
                        = {data[k] : k \in W}
                   /\ \E k \in W : r[1].high = data[k].High
                   /\ \A k \in W : r[1].high >= data[k].High
                   /\ \E k \in W : r[1].low = data[k].Low
                   /\ \A k \in W : r[1].low <= data[k].Low
                   /\ r[1].high >= r[1].low
    /\ \A i \in Ledger :
          /\ WindowRows(console[i].date) # {}
          /\ \E k \in WindowRows(console[i].date) : console[i].high = data[k].High
          /\ \A k \in WindowRows(console[i].date) : console[i].high >= data[k].High
          /\ \E k \in WindowRows(console[i].date) : console[i].low = data[k].Low
          /\ \A k \in WindowRows(console[i].date) : console[i].low <= data[k].Low
          /\ \A k \in Rows : data[k].t = trades[i].entry_time
                                => k \notin WindowRows(console[i].date)

\* a two-row window whose first row holds the high, broken by the row that
\* stands exactly at the window end
C17_Witness ==
    \E i \in Ledger : \E k, m \in WindowRows(console[i].date) :
        /\ data[k].t < data[m].t
        /\ data[k].High > data[m].High
        /\ trades[i].entry_time = console[i].date * DayLen + OpenSlot + WindowLen

\* C18: every step leaves the ledger as it is or appends one Trade at its end;
\* the Trades already recorded keep their place and all their fields.
C18_LedgerAppendOnly ==
    [][\/ trades' = trades
       \/ /\ Len(trades') = Len(trades) + 1
          /\ SubSeq(trades', 1, Len(trades)) = trades]_vars

\* a Trade was appended behind Trades recorded by an earlier run
C18_Witness ==
    /\ fetches = 2
    /\ prevLedger # <<>>
    /\ Len(trades) > Len(prevLedger)
    /\ SubSeq(trades, 1, Len(prevLedger)) = prevLedger

\* C19: along the ledger of one run the entry times are strictly increasing.
C19_EntryTimesIncrease ==
    fetches <= 1 =>
        \A i \in Ledger :
            i + 1 \in Ledger => trades[i].entry_time < trades[i + 1].entry_time
====
